---- MODULE Spec2Model ----
(***************************************************************************)
(* Behavioural model of the C fixtures of the c2java corpus: the programs  *)
(* a translation must preserve.  Each fixture's main is a state machine    *)
(* over its variables (mem), its program position (pc) and its standard    *)
(* output (out); the pure sample functions are operators computed as the   *)
(* C code computes them.                                                   *)
(***************************************************************************)
EXTENDS Integers, Sequences, FiniteSets, TLC

VARIABLES unit, pc, mem, out

vars == <<unit, pc, mem, out>>

(***************************************************************************)
(* The C int type.                                                         *)
(***************************************************************************)
IntBits == 32

INT_MAX == (2 ^ (IntBits - 2) - 1) * 2 + 1

INT_MIN == (-INT_MAX) - 1

\* Values an int may hold after an undefined operation (signed overflow):
\* the wrapped value of INT_MAX + 1 and representatives of the rest of the range.
IntSamples == {INT_MIN, INT_MIN + 1, -1, 0, 1, INT_MAX}

\* Values of an int object that was declared without an initialiser.
Indeterminate == {-7, 0, 42}

\* The possible results of the int addition a + b.
AddInt(a, b) ==
    IF (b >= 0 => a <= INT_MAX - b) /\ (b < 0 => a >= INT_MIN - b)
    THEN {a + b}
    ELSE IntSamples

\* ++v : the variable's new value (var) and the value of the expression (val).
PreIncrWrong(v) == {[var |-> r, val |-> v] : r \in AddInt(v, 1)}

PreIncr(v) == {[var |-> r, val |-> r] : r \in AddInt(v, 1)}

\* v++
PostIncr(v) == {[var |-> r, val |-> v] : r \in AddInt(v, 1)}

\* One printf call: its format and the values of its arguments.
Pr(fmt, args) == [fmt |-> fmt, args |-> args]

(***************************************************************************)
(* test9_casting_prefix.c, main, lines 25-27.  The initialiser of j (the   *)
(* literal 3) is the input of the fragment: it ranges over JStarts.        *)
(***************************************************************************)
MaxJ == 8

JStarts == (-MaxJ .. MaxJ) \cup {3, INT_MIN, INT_MAX - 2, INT_MAX - 1, INT_MAX}

T9_DeclJ ==
    /\ unit = "test9_casting_prefix.c" /\ pc = "t9_decl_j"
    /\ mem' = [mem EXCEPT !.j = mem.j0]
    /\ pc' = "t9_decl_k"
    /\ UNCHANGED <<unit, out>>

\* int k = ++j + 1; printf("k = %d\n", k);
T9_DeclK ==
    /\ unit = "test9_casting_prefix.c" /\ pc = "t9_decl_k"
    /\ \E r \in PreIncr(mem.j) : \E k \in AddInt(r.val, 1) :
          /\ mem' = [mem EXCEPT !.j = r.var, !.k = k]
          /\ out' = Append(out, Pr("k = %d", <<k>>))
    /\ pc' = "done"
    /\ UNCHANGED unit

(***************************************************************************)
(* The postfix variant of the same fragment, k = j++ + 1, from the same    *)
(* starting states.                                                        *)
(***************************************************************************)
PV_DeclJ ==
    /\ unit = "postfix_variant" /\ pc = "pv_decl_j"
    /\ mem' = [mem EXCEPT !.j = mem.j0]
    /\ pc' = "pv_decl_k"
    /\ UNCHANGED <<unit, out>>

PV_DeclK ==
    /\ unit = "postfix_variant" /\ pc = "pv_decl_k"
    /\ \E r \in PostIncr(mem.j) : \E k \in AddInt(r.val, 1) :
          /\ mem' = [mem EXCEPT !.j = r.var, !.k = k]
          /\ out' = Append(out, Pr("k = %d", <<k>>))
    /\ pc' = "done"
    /\ UNCHANGED unit

(***************************************************************************)
(* Control transfer.  A loop or switch is described by the positions of    *)
(* its parts; break leaves the nearest enclosing loop or switch, continue  *)
(* goes to the increment of a for loop and to the test of a while loop.    *)
(***************************************************************************)
\* a % b of C (the quotient truncates toward zero), b # 0.
CRem(a, b) ==
    LET aa == IF a < 0 THEN -a ELSE a
        bb == IF b < 0 THEN -b ELSE b
    IN  IF a < 0 THEN -(aa % bb) ELSE aa % bb

BreakAsContinue(l) ==
    IF l.kind = "for" THEN l.incr ELSE IF l.kind = "while" THEN l.cond ELSE l.exit

BreakTarget(l) == l.exit

ContinueAsBreak(l) == l.exit

ContinueTarget(l) == IF l.kind = "for" THEN l.incr ELSE l.cond

(***************************************************************************)
(* test5_break_continue.c, main.                                           *)
(***************************************************************************)
T5For ==
    [kind |-> "for", cond |-> "t5_for_cond", incr |-> "t5_for_incr",
     exit |-> "t5_decl_j"]

T5While == [kind |-> "while", cond |-> "t5_while_cond", exit |-> "t5_decl_x"]

\* for (int i = 1; ...
T5_ForInit ==
    /\ unit = "test5_break_continue.c" /\ pc = "t5_for_init"
    /\ mem' = [mem EXCEPT !.i = 1]
    /\ pc' = T5For.cond
    /\ UNCHANGED <<unit, out>>

\* ... i <= 10; ...
T5_ForCond ==
    /\ unit = "test5_break_continue.c" /\ pc = "t5_for_cond"
    /\ pc' = IF mem.i <= 10 THEN "t5_for_if" ELSE T5For.exit
    /\ UNCHANGED <<unit, mem, out>>

\* if (i % 3 == 0) { printf("Breaking at: %d\n", i); break; }
T5_ForIf ==
    /\ unit = "test5_break_continue.c" /\ pc = "t5_for_if"
    /\ IF CRem(mem.i, 3) = 0
       THEN /\ out' = Append(out, Pr("Breaking at: %d", <<mem.i>>))
            /\ pc' = BreakTarget(T5For)
       ELSE /\ out' = out
            /\ pc' = "t5_for_print"
    /\ UNCHANGED <<unit, mem>>

\* printf("%d\n", i);
T5_ForPrint ==
    /\ unit = "test5_break_continue.c" /\ pc = "t5_for_print"
    /\ out' = Append(out, Pr("%d", <<mem.i>>))
    /\ pc' = T5For.incr
    /\ UNCHANGED <<unit, mem>>

\* ... i++)
T5_ForIncr ==
    /\ unit = "test5_break_continue.c" /\ pc = "t5_for_incr"
    /\ \E r \in PostIncr(mem.i) : mem' = [mem EXCEPT !.i = r.var]
    /\ pc' = T5For.cond
    /\ UNCHANGED <<unit, out>>

\* int j = 0;
T5_DeclJ ==
    /\ unit = "test5_break_continue.c" /\ pc = "t5_decl_j"
    /\ mem' = [mem EXCEPT !.j = 0]
    /\ pc' = T5While.cond
    /\ UNCHANGED <<unit, out>>

\* while (j < 10)
T5_WhileCond ==
    /\ unit = "test5_break_continue.c" /\ pc = "t5_while_cond"
    /\ pc' = IF mem.j < 10 THEN "t5_while_body" ELSE T5While.exit
    /\ UNCHANGED <<unit, mem, out>>

\* j = j + 1; if (j % 2 == 0) { continue; }
T5_WhileBody ==
    /\ unit = "test5_break_continue.c" /\ pc = "t5_while_body"
    /\ \E v \in AddInt(mem.j, 1) :
          /\ mem' = [mem EXCEPT !.j = v]
          /\ pc' = IF CRem(v, 2) = 0 THEN ContinueTarget(T5While)
                   ELSE "t5_while_print"
    /\ UNCHANGED <<unit, out>>

\* printf("Odd: %d\n", j);
T5_WhilePrint ==
    /\ unit = "test5_break_continue.c" /\ pc = "t5_while_print"
    /\ out' = Append(out, Pr("Odd: %d", <<mem.j>>))
    /\ pc' = T5While.cond
    /\ UNCHANGED <<unit, mem>>

\* int x = 10; x += 5; x -= 3; x *= 2; printf("x = %d\n", x);
T5_Compound ==
    /\ unit = "test5_break_continue.c" /\ pc = "t5_decl_x"
    /\ LET x == ((10 + 5) - 3) * 2
       IN  /\ mem' = [mem EXCEPT !.x = x]
           /\ out' = Append(out, Pr("x = %d", <<x>>))
    /\ pc' = "done"
    /\ UNCHANGED unit

(***************************************************************************)
(* switch.  A switch is its selector, its case entries in source order     *)
(* (label or default, the one statement of the body, whether a break ends  *)
(* it) and the position after it.  Control enters at the entry whose label *)
(* equals the selector, else at default, and runs on through the entries   *)
(* that follow until a break.                                              *)
(***************************************************************************)
Case(label, stmt) ==
    [isDefault |-> FALSE, label |-> label, stmt |-> stmt, brk |-> TRUE]

Default(stmt) ==
    [isDefault |-> TRUE, label |-> 0, stmt |-> stmt, brk |-> TRUE]

PrintStmt(fmt) == [kind |-> "print", pr |-> Pr(fmt, <<>>), val |-> 0]

AssignResult(v) == [kind |-> "assign", pr |-> Pr("", <<>>), val |-> v]

\* The entry a selector value enters at (0: none, the switch is skipped).
SwitchTargetNoMatch(cases, v) ==
    IF \E n \in 1 .. Len(cases) : cases[n].isDefault
    THEN CHOOSE n \in 1 .. Len(cases) : cases[n].isDefault
    ELSE 0

SwitchTarget(cases, v) ==
    IF \E n \in 1 .. Len(cases) : ~cases[n].isDefault /\ cases[n].label = v
    THEN CHOOSE n \in 1 .. Len(cases) : ~cases[n].isDefault /\ cases[n].label = v
    ELSE IF \E n \in 1 .. Len(cases) : cases[n].isDefault
    THEN CHOOSE n \in 1 .. Len(cases) : cases[n].isDefault
    ELSE 0

\* float divide(float a, float b) { return b != 0 ? a / b : 0; }
divide(a, b) == IF b # 0 THEN a \div b ELSE 0

\* all_features.c:   switch (day) { case 1: printf("Mon\n"); break; ... }
\* all_features.cpp: switch (day) { case 1: cout << "Monday" << endl; break; ... }
\* calculator.c:     switch (op) { case 1: result = add(a, b); break; ... }
SwitchOf(u, m) ==
    IF u = "all_features.c"
    THEN [kind |-> "switch", sel |-> m.day, exit |-> "done",
          cases |-> << Case(1, PrintStmt("Mon")), Case(2, PrintStmt("Tue")),
                       Case(3, PrintStmt("Wed")), Default(PrintStmt("Other")) >>]
    ELSE IF u = "all_features.cpp"
    THEN [kind |-> "switch", sel |-> m.day, exit |-> "af_for_init",
          cases |-> << Case(1, PrintStmt("Monday")), Case(2, PrintStmt("Tuesday")),
                       Case(3, PrintStmt("Wednesday")),
                       Default(PrintStmt("Other")) >>]
    ELSE [kind |-> "switch", sel |-> m.op, exit |-> "calc_print",
          cases |-> << Case(1, AssignResult(m.a + m.b)),
                       Case(2, AssignResult(m.a - m.b)),
                       Case(3, AssignResult(m.a * m.b)),
                       Case(4, AssignResult(divide(m.a, m.b))),
                       Default(AssignResult(0)) >>]

\* switch (sel): the jump to the matching entry.  ran records the bodies run.
SwitchDispatch ==
    /\ unit \in {"all_features.c", "all_features.cpp", "calculator.c"} /\ pc = "sw_dispatch"
    /\ LET sw == SwitchOf(unit, mem)
           t  == SwitchTarget(sw.cases, sw.sel)
       IN  /\ mem' = [mem EXCEPT !.ci = t, !.ran = <<>>]
           /\ pc' = IF t = 0 THEN sw.exit ELSE "sw_body"
    /\ UNCHANGED <<unit, out>>

\* The statement of the current entry; without a break control falls into the next.
CaseBody ==
    /\ unit \in {"all_features.c", "all_features.cpp", "calculator.c"} /\ pc = "sw_body"
    /\ LET sw == SwitchOf(unit, mem)
           c  == sw.cases[mem.ci]
           m1 == [mem EXCEPT !.ran = Append(@, mem.ci)]
           m2 == IF c.stmt.kind = "assign"
                 THEN [m1 EXCEPT !.result = c.stmt.val, !.assigns = @ + 1]
                 ELSE m1
       IN  /\ out' = IF c.stmt.kind = "print" THEN Append(out, c.stmt.pr) ELSE out
           /\ IF c.brk
              THEN mem' = m2 /\ pc' = "sw_break"
              ELSE IF mem.ci < Len(sw.cases)
              THEN mem' = [m2 EXCEPT !.ci = @ + 1] /\ pc' = "sw_body"
              ELSE mem' = m2 /\ pc' = sw.exit
    /\ UNCHANGED unit

\* break; inside the switch
CaseBreak ==
    /\ unit \in {"all_features.c", "all_features.cpp", "calculator.c"} /\ pc = "sw_break"
    /\ pc' = BreakTarget(SwitchOf(unit, mem))
    /\ UNCHANGED <<unit, mem, out>>

(***************************************************************************)
(* all_features.c and all_features.cpp, main: the while and do-while loops *)
(* (all_features.c), the break/continue loop and the switch.  The          *)
(* initialiser of day (the literal 3) ranges over the selector values.     *)
(***************************************************************************)
MaxSel == 5

SelVals == -1 .. MaxSel

\* for (i = 0; i < 20; i++) { if (i % 2 == 0) continue; if (i > 9) break; ... }
AFFor(u) ==
    [kind |-> "for", cond |-> "af_for_cond", incr |-> "af_for_incr",
     exit |-> IF u = "all_features.c" THEN "af_decl_day" ELSE "done"]

\* int count = 0;
AF_DeclCount ==
    /\ unit = "all_features.c" /\ pc = "af_decl_count"
    /\ mem' = [mem EXCEPT !.count = 0]
    /\ pc' = "af_while_cond"
    /\ UNCHANGED <<unit, out>>

\* while (count < 5)
AF_WhileCond ==
    /\ unit = "all_features.c" /\ pc = "af_while_cond"
    /\ pc' = IF mem.count < 5 THEN "af_while_body" ELSE "af_decl_n"
    /\ UNCHANGED <<unit, mem, out>>

\* count++;
AF_WhileBody ==
    /\ unit = "all_features.c" /\ pc = "af_while_body"
    /\ \E r \in PostIncr(mem.count) : mem' = [mem EXCEPT !.count = r.var]
    /\ pc' = "af_while_cond"
    /\ UNCHANGED <<unit, out>>

\* int n = 10; do {      (the body is entered without a test)
AF_DeclN ==
    /\ unit = "all_features.c" /\ pc = "af_decl_n"
    /\ mem' = [mem EXCEPT !.n = 10]
    /\ pc' = "af_do_body"
    /\ UNCHANGED <<unit, out>>

\* n -= 3;      iters counts the runs of the body.
AF_DoBody ==
    /\ unit = "all_features.c" /\ pc = "af_do_body"
    /\ \E v \in AddInt(mem.n, -3) : mem' = [mem EXCEPT !.n = v, !.iters = @ + 1]
    /\ pc' = "af_do_cond"
    /\ UNCHANGED <<unit, out>>

\* } while (n > 0);   printf("n = %d\n", n);
AF_DoCond ==
    /\ unit = "all_features.c" /\ pc = "af_do_cond"
    /\ IF mem.n > 0
       THEN pc' = "af_do_body" /\ UNCHANGED out
       ELSE pc' = "af_for_init" /\ out' = Append(out, Pr("n = %d", <<mem.n>>))
    /\ UNCHANGED <<unit, mem>>

AF_ForInit ==
    /\ unit \in {"all_features.c", "all_features.cpp"} /\ pc = "af_for_init"
    /\ mem' = [mem EXCEPT !.i = 0]
    /\ pc' = AFFor(unit).cond
    /\ UNCHANGED <<unit, out>>

AF_ForCond ==
    /\ unit \in {"all_features.c", "all_features.cpp"} /\ pc = "af_for_cond"
    /\ pc' = IF mem.i < 20 THEN "af_for_if_even" ELSE AFFor(unit).exit
    /\ UNCHANGED <<unit, mem, out>>

\* if (i % 2 == 0) continue;
AF_ForIfEven ==
    /\ unit \in {"all_features.c", "all_features.cpp"} /\ pc = "af_for_if_even"
    /\ pc' = IF CRem(mem.i, 2) = 0 THEN ContinueTarget(AFFor(unit))
             ELSE "af_for_if_big"
    /\ UNCHANGED <<unit, mem, out>>

\* if (i > 9) break;
AF_ForIfBig ==
    /\ unit \in {"all_features.c", "all_features.cpp"} /\ pc = "af_for_if_big"
    /\ pc' = IF mem.i > 9 THEN BreakTarget(AFFor(unit)) ELSE "af_for_print"
    /\ UNCHANGED <<unit, mem, out>>

\* printf("%d\n", i);
AF_ForPrint ==
    /\ unit \in {"all_features.c", "all_features.cpp"} /\ pc = "af_for_print"
    /\ out' = Append(out, Pr("%d", <<mem.i>>))
    /\ pc' = AFFor(unit).incr
    /\ UNCHANGED <<unit, mem>>

AF_ForIncr ==
    /\ unit \in {"all_features.c", "all_features.cpp"} /\ pc = "af_for_incr"
    /\ \E r \in PostIncr(mem.i) : mem' = [mem EXCEPT !.i = r.var]
    /\ pc' = AFFor(unit).cond
    /\ UNCHANGED <<unit, out>>

\* int day = 3;
AF_DeclDay ==
    /\ unit \in {"all_features.c", "all_features.cpp"} /\ pc = "af_decl_day"
    /\ mem' = [mem EXCEPT !.day = mem.day0]
    /\ pc' = "sw_dispatch"
    /\ UNCHANGED <<unit, out>>

(***************************************************************************)
(* calculator.c, main.  The operands and op are read by scanf.             *)
(***************************************************************************)
CALCFor ==
    [kind |-> "for", cond |-> "calc_for_cond", incr |-> "calc_for_incr",
     exit |-> "done"]

\* scanf("%f %f", &a, &b);
CALC_ScanAB ==
    /\ unit = "calculator.c" /\ pc = "calc_scan_ab"
    /\ \E a \in {-4, 6}, b \in {0, 2} : mem' = [mem EXCEPT !.a = a, !.b = b]
    /\ pc' = "calc_scan_op"
    /\ UNCHANGED <<unit, out>>

\* scanf("%d", &op);
CALC_ScanOp ==
    /\ unit = "calculator.c" /\ pc = "calc_scan_op"
    /\ \E v \in SelVals : mem' = [mem EXCEPT !.op = v]
    /\ pc' = "sw_dispatch"
    /\ UNCHANGED <<unit, out>>

\* printf("Result: %f\n", result);
CALC_Print ==
    /\ unit = "calculator.c" /\ pc = "calc_print"
    /\ out' = Append(out, Pr("Result: %f", <<mem.result>>))
    /\ pc' = "calc_for_init"
    /\ UNCHANGED <<unit, mem>>

CALC_ForInit ==
    /\ unit = "calculator.c" /\ pc = "calc_for_init"
    /\ mem' = [mem EXCEPT !.i = 1]
    /\ pc' = CALCFor.cond
    /\ UNCHANGED <<unit, out>>

CALC_ForCond ==
    /\ unit = "calculator.c" /\ pc = "calc_for_cond"
    /\ pc' = IF mem.i <= 5 THEN "calc_for_if" ELSE CALCFor.exit
    /\ UNCHANGED <<unit, mem, out>>

\* if (i == 3) continue;
CALC_ForIf ==
    /\ unit = "calculator.c" /\ pc = "calc_for_if"
    /\ pc' = IF mem.i = 3 THEN ContinueTarget(CALCFor) ELSE "calc_for_print"
    /\ UNCHANGED <<unit, mem, out>>

\* printf("i = %d\n", i);
CALC_ForPrint ==
    /\ unit = "calculator.c" /\ pc = "calc_for_print"
    /\ out' = Append(out, Pr("i = %d", <<mem.i>>))
    /\ pc' = CALCFor.incr
    /\ UNCHANGED <<unit, mem>>

CALC_ForIncr ==
    /\ unit = "calculator.c" /\ pc = "calc_for_incr"
    /\ \E r \in PostIncr(mem.i) : mem' = [mem EXCEPT !.i = r.var]
    /\ pc' = CALCFor.cond
    /\ UNCHANGED <<unit, out>>

(***************************************************************************)
(* Objects.  A declaration gives every declarator its own object: env maps *)
(* a name to its object, store an object to its value, next is the first   *)
(* unused object.                                                          *)
(***************************************************************************)
NoObjects == [env |-> <<>>, store |-> <<>>, next |-> 0]

AllocShared(m, name, v) ==
    LET at == IF m.next = 0 THEN 0 ELSE m.next - 1
    IN  [env |-> (name :> at) @@ m.env, store |-> (at :> v) @@ m.store,
         next |-> at + 1]

Alloc(m, name, v) ==
    [env |-> (name :> m.next) @@ m.env, store |-> (m.next :> v) @@ m.store,
     next |-> m.next + 1]

\* T n1 = v1, n2 = v2, ...; : one declaration per declarator, in order.
RECURSIVE DeclareVars(_, _, _)
DeclareVars(m, names, vals) ==
    IF names = <<>> THEN m
    ELSE DeclareVars(Alloc(m, Head(names), Head(vals)), Tail(names), Tail(vals))

Load(m, name) == m.store[m.env[name]]

Store(m, name, v) == [m EXCEPT !.store[m.env[name]] = v]

(***************************************************************************)
(* test8_multivar_define.c, main.                                          *)
(***************************************************************************)
\* #define MAX 100
MAX == 100

\* #define PI 3.14159
PI == "3.14159"

\* int a, b, c;
T8_DeclABC ==
    /\ unit = "test8_multivar_define.c" /\ pc = "t8_decl_abc"
    /\ \E ga \in Indeterminate, gb \in Indeterminate, gc \in Indeterminate :
          mem' = DeclareVars(mem, <<"a", "b", "c">>, <<ga, gb, gc>>)
    /\ pc' = "t8_assign_a"
    /\ UNCHANGED <<unit, out>>

\* a = 10;
T8_AssignA ==
    /\ unit = "test8_multivar_define.c" /\ pc = "t8_assign_a"
    /\ mem' = Store(mem, "a", 10)
    /\ pc' = "t8_assign_b"
    /\ UNCHANGED <<unit, out>>

\* b = 20;
T8_AssignB ==
    /\ unit = "test8_multivar_define.c" /\ pc = "t8_assign_b"
    /\ mem' = Store(mem, "b", 20)
    /\ pc' = "t8_assign_c"
    /\ UNCHANGED <<unit, out>>

\* c = a + b;
T8_AssignC ==
    /\ unit = "test8_multivar_define.c" /\ pc = "t8_assign_c"
    /\ \E v \in AddInt(Load(mem, "a"), Load(mem, "b")) : mem' = Store(mem, "c", v)
    /\ pc' = "t8_decl_xyz"
    /\ UNCHANGED <<unit, out>>

\* int x = 5, y = 10, z = 15;
T8_DeclXYZ ==
    /\ unit = "test8_multivar_define.c" /\ pc = "t8_decl_xyz"
    /\ mem' = DeclareVars(mem, <<"x", "y", "z">>, <<5, 10, 15>>)
    /\ pc' = "t8_print"
    /\ UNCHANGED <<unit, out>>

\* the four printf calls
T8_Print ==
    /\ unit = "test8_multivar_define.c" /\ pc = "t8_print"
    /\ \E xy \in AddInt(Load(mem, "x"), Load(mem, "y")) :
       \E xyz \in AddInt(xy, Load(mem, "z")) :
          out' = out \o << Pr("c = %d", <<Load(mem, "c")>>), Pr("MAX = %d", <<MAX>>),
                           Pr("PI = %f", <<PI>>), Pr("x + y + z = %d", <<xyz>>) >>
    /\ pc' = "done"
    /\ UNCHANGED <<unit, mem>>

(***************************************************************************)
(* test11_struct.c.                                                        *)
(***************************************************************************)
\* struct Point { int x; int y; };
Point == <<"x", "y">>

\* struct Rectangle { int width; int height; };
Rectangle == <<"width", "height">>

\* int area(int w, int h) { return w * h; }
area(w, h) == w * h

\* The name of member f of the struct variable v.
Member(v, f) == v \o "." \o f

\* { v1, v2, ... } : the values go to the members in declaration order.
BraceInitReversed(fields, vals) ==
    [n \in 1 .. Len(fields) |->
        IF Len(fields) + 1 - n <= Len(vals) THEN vals[Len(fields) + 1 - n] ELSE 0]

BraceInit(fields, vals) ==
    [n \in 1 .. Len(fields) |-> IF n <= Len(vals) THEN vals[n] ELSE 0]

\* struct S v; or struct S v = {...}; : one object per member.
DeclareStruct(m, v, fields, vals) ==
    DeclareVars(m, [n \in 1 .. Len(fields) |-> Member(v, fields[n])], vals)

\* struct Point p;
T11_DeclP ==
    /\ unit = "test11_struct.c" /\ pc = "t11_decl_p"
    /\ \E gx \in Indeterminate, gy \in Indeterminate :
          mem' = DeclareStruct(mem, "p", Point, <<gx, gy>>)
    /\ pc' = "t11_assign_px"
    /\ UNCHANGED <<unit, out>>

\* p.x = 3;
T11_AssignPX ==
    /\ unit = "test11_struct.c" /\ pc = "t11_assign_px"
    /\ mem' = Store(mem, Member("p", "x"), 3)
    /\ pc' = "t11_assign_py"
    /\ UNCHANGED <<unit, out>>

\* p.y = 4; printf("Point: (%d, %d)\n", p.x, p.y);
T11_AssignPY ==
    /\ unit = "test11_struct.c" /\ pc = "t11_assign_py"
    /\ mem' = Store(mem, Member("p", "y"), 4)
    /\ out' = Append(out, Pr("Point: (%d, %d)", <<Load(mem', "p.x"), Load(mem', "p.y")>>))
    /\ pc' = "t11_decl_q"
    /\ UNCHANGED unit

\* struct Point q = {10, 20}; printf("Q: (%d, %d)\n", q.x, q.y);
T11_DeclQ ==
    /\ unit = "test11_struct.c" /\ pc = "t11_decl_q"
    /\ mem' = DeclareStruct(mem, "q", Point, BraceInit(Point, <<10, 20>>))
    /\ out' = Append(out, Pr("Q: (%d, %d)", <<Load(mem', "q.x"), Load(mem', "q.y")>>))
    /\ pc' = "t11_dist"
    /\ UNCHANGED unit

\* int dist; dist = p.x + p.y; printf("dist = %d\n", dist);
T11_Dist ==
    /\ unit = "test11_struct.c" /\ pc = "t11_dist"
    /\ \E g \in Indeterminate :
       \E v \in AddInt(Load(mem, Member("p", "x")), Load(mem, Member("p", "y"))) :
          /\ mem' = Store(Alloc(mem, "dist", g), "dist", v)
          /\ out' = Append(out, Pr("dist = %d", <<v>>))
    /\ pc' = "t11_decl_r"
    /\ UNCHANGED unit

\* struct Rectangle r; r.width = 5; r.height = 8;
T11_DeclR ==
    /\ unit = "test11_struct.c" /\ pc = "t11_decl_r"
    /\ \E gw \in Indeterminate, gh \in Indeterminate :
          mem' = Store(Store(DeclareStruct(mem, "r", Rectangle, <<gw, gh>>),
                             Member("r", "width"), 5),
                       Member("r", "height"), 8)
    /\ pc' = "t11_area"
    /\ UNCHANGED <<unit, out>>

\* int a; a = area(r.width, r.height); printf("Area = %d\n", a);
T11_Area ==
    /\ unit = "test11_struct.c" /\ pc = "t11_area"
    /\ \E g \in Indeterminate :
          LET v == area(Load(mem, Member("r", "width")), Load(mem, Member("r", "height")))
          IN  /\ mem' = Store(Alloc(mem, "a", g), "a", v)
              /\ out' = Append(out, Pr("Area = %d", <<v>>))
    /\ pc' = "done"
    /\ UNCHANGED unit

Init ==
    \/ /\ unit = "test9_casting_prefix.c"
       /\ pc = "t9_decl_j"
       /\ \E j0 \in JStarts, g \in Indeterminate :
             mem = [j0 |-> j0, j |-> g, k |-> g]
       /\ out = <<>>
    \/ /\ unit = "postfix_variant"
       /\ pc = "pv_decl_j"
       /\ \E j0 \in JStarts, g \in Indeterminate :
             mem = [j0 |-> j0, j |-> g, k |-> g]
       /\ out = <<>>
    \/ /\ unit = "test5_break_continue.c"
       /\ pc = "t5_for_init"
       /\ \E g \in Indeterminate : mem = [i |-> g, j |-> g, x |-> g]
       /\ out = <<>>
    \/ /\ unit = "all_features.c"
       /\ pc = "af_decl_count"
       /\ \E d \in SelVals, g \in Indeterminate :
             mem = [day0 |-> d, count |-> g, n |-> g, iters |-> 0, i |-> g,
                    day |-> g, ci |-> 0, ran |-> <<>>]
       /\ out = <<>>
    \/ /\ unit = "all_features.cpp"
       /\ pc = "af_decl_day"
       /\ \E d \in SelVals, g \in Indeterminate :
             mem = [day0 |-> d, i |-> g, day |-> g, ci |-> 0, ran |-> <<>>]
       /\ out = <<>>
    \/ /\ unit = "calculator.c"
       /\ pc = "calc_scan_ab"
       /\ \E g \in Indeterminate :
             mem = [a |-> g, b |-> g, result |-> g, op |-> g, i |-> g,
                    ci |-> 0, ran |-> <<>>, assigns |-> 0]
       /\ out = <<>>
    \/ /\ unit = "test8_multivar_define.c"
       /\ pc = "t8_decl_abc"
       /\ mem = NoObjects
       /\ out = <<>>
    \/ /\ unit = "test11_struct.c"
       /\ pc = "t11_decl_p"
       /\ mem = NoObjects
       /\ out = <<>>

Next ==
    \/ T9_DeclJ \/ T9_DeclK \/ PV_DeclJ \/ PV_DeclK \/ T5_ForInit
    \/ T5_ForCond \/ T5_ForIf \/ T5_ForPrint \/ T5_ForIncr \/ T5_DeclJ
    \/ T5_WhileCond \/ T5_WhileBody \/ T5_WhilePrint \/ T5_Compound
    \/ SwitchDispatch \/ CaseBody \/ CaseBreak \/ AF_DeclCount
    \/ AF_WhileCond \/ AF_WhileBody \/ AF_DeclN \/ AF_DoBody \/ AF_DoCond
    \/ AF_ForInit \/ AF_ForCond
    \/ AF_ForIfEven \/ AF_ForIfBig \/ AF_ForPrint \/ AF_ForIncr \/ AF_DeclDay
    \/ CALC_ScanAB \/ CALC_ScanOp \/ CALC_Print \/ CALC_ForInit
    \/ CALC_ForCond \/ CALC_ForIf \/ CALC_ForPrint \/ CALC_ForIncr
    \/ T8_DeclABC \/ T8_AssignA \/ T8_AssignB \/ T8_AssignC \/ T8_DeclXYZ
    \/ T8_Print \/ T11_DeclP \/ T11_AssignPX \/ T11_AssignPY \/ T11_DeclQ
    \/ T11_Dist \/ T11_DeclR \/ T11_Area

Spec == Init /\ [][Next]_vars

\* The same programs, each taking its next step as long as it has one.
SpecLoops == Init /\ [][Next]_vars /\ WF_vars(Next)

(***************************************************************************)
(* Scope resolution of a translation unit.  A unit is read as the sequence *)
(* of its scope events in token order: the declaration of a name, the use *)
(* of a name, the opening and the closing of a scope (function parameters  *)
(* and body, block, for statement).  The resolver keeps a stack            *)
(* of scopes; a use of a name that no enclosing scope declares is an       *)
(* undeclared identifier.                                                  *)
(***************************************************************************)
Ev(k, n, line) == [k |-> k, n |-> n, line |-> line]

\* The library functions the mapping table knows (formatted output and input).
LibraryNames == {"printf", "scanf"}

\* test_j2c_lib.c.  Line 22 is `for (/* expr:VariableDeclaration */; (i <= 5); i++) {`:
\* the initialiser slot holds a comment, no declaration.
J2CEvents ==
    <<
        Ev("decl", "add", 3), Ev("open", "", 3), Ev("decl", "a", 3),
        Ev("decl", "b", 3), Ev("close", "", 3), Ev("decl", "factorial", 4),
        Ev("open", "", 4), Ev("decl", "n", 4), Ev("close", "", 4),
        Ev("decl", "add", 6), Ev("open", "", 6), Ev("decl", "a", 6),
        Ev("decl", "b", 6), Ev("use", "a", 7), Ev("use", "b", 7),
        Ev("close", "", 8), Ev("decl", "factorial", 10), Ev("open", "", 10),
        Ev("decl", "n", 10), Ev("use", "n", 11), Ev("open", "", 11),
        Ev("close", "", 13), Ev("use", "n", 14), Ev("use", "factorial", 14),
        Ev("use", "n", 14), Ev("close", "", 15), Ev("decl", "main", 17),
        Ev("open", "", 17), Ev("decl", "x", 18), Ev("decl", "y", 19),
        Ev("decl", "sum", 20), Ev("use", "add", 20), Ev("use", "x", 20),
        Ev("use", "y", 20), Ev("use", "printf", 21), Ev("use", "sum", 21),
        Ev("open", "", 22), Ev("use", "i", 22), Ev("use", "i", 22),
        Ev("open", "", 22), Ev("use", "printf", 23), Ev("use", "i", 23),
        Ev("close", "", 24), Ev("close", "", 24), Ev("decl", "n", 25),
        Ev("decl", "fact", 26), Ev("use", "factorial", 26), Ev("use", "n", 26),
        Ev("use", "printf", 27), Ev("use", "n", 27), Ev("use", "fact", 27),
        Ev("use", "x", 28), Ev("use", "y", 28), Ev("open", "", 28),
        Ev("use", "printf", 29), Ev("close", "", 30), Ev("open", "", 30),
        Ev("use", "printf", 31), Ev("close", "", 32), Ev("close", "", 34)
    >>

\* test5_break_continue.c.  Line 5 is `for (int i = 1; i <= 10; i++) {`.
T5Events ==
    <<
        Ev("decl", "main", 4), Ev("open", "", 4), Ev("open", "", 5),
        Ev("decl", "i", 5), Ev("use", "i", 5), Ev("use", "i", 5),
        Ev("open", "", 5), Ev("use", "i", 6), Ev("open", "", 6),
        Ev("use", "printf", 7), Ev("use", "i", 7), Ev("close", "", 9),
        Ev("use", "printf", 10), Ev("use", "i", 10), Ev("close", "", 11),
        Ev("close", "", 11), Ev("decl", "j", 15), Ev("use", "j", 16),
        Ev("open", "", 16), Ev("use", "j", 17), Ev("use", "j", 17),
        Ev("use", "j", 18), Ev("open", "", 18), Ev("close", "", 20),
        Ev("use", "printf", 21), Ev("use", "j", 21), Ev("close", "", 22),
        Ev("decl", "x", 25), Ev("use", "x", 26), Ev("use", "x", 27),
        Ev("use", "x", 28), Ev("use", "printf", 29), Ev("use", "x", 29),
        Ev("close", "", 32)
    >>

\* calculator.c.  Line 30 is `for (i = 1; i <= 5; i++) {`, i declared on line 29.
CALCEvents ==
    <<
        Ev("decl", "add", 4), Ev("open", "", 4), Ev("decl", "a", 4),
        Ev("decl", "b", 4), Ev("use", "a", 4), Ev("use", "b", 4),
        Ev("close", "", 4), Ev("decl", "sub", 5), Ev("open", "", 5),
        Ev("decl", "a", 5), Ev("decl", "b", 5), Ev("use", "a", 5),
        Ev("use", "b", 5), Ev("close", "", 5), Ev("decl", "mul", 6),
        Ev("open", "", 6), Ev("decl", "a", 6), Ev("decl", "b", 6),
        Ev("use", "a", 6), Ev("use", "b", 6), Ev("close", "", 6),
        Ev("decl", "divide", 7), Ev("open", "", 7), Ev("decl", "a", 7),
        Ev("decl", "b", 7), Ev("use", "b", 7), Ev("use", "a", 7),
        Ev("use", "b", 7), Ev("close", "", 7), Ev("decl", "main", 9),
        Ev("open", "", 9), Ev("decl", "a", 10), Ev("decl", "b", 10),
        Ev("decl", "result", 10), Ev("decl", "op", 11), Ev("use", "printf", 13),
        Ev("use", "scanf", 14), Ev("use", "a", 14), Ev("use", "b", 14),
        Ev("use", "printf", 16), Ev("use", "scanf", 17), Ev("use", "op", 17),
        Ev("use", "op", 19), Ev("open", "", 19), Ev("use", "result", 20),
        Ev("use", "add", 20), Ev("use", "a", 20), Ev("use", "b", 20),
        Ev("use", "result", 21), Ev("use", "sub", 21), Ev("use", "a", 21),
        Ev("use", "b", 21), Ev("use", "result", 22), Ev("use", "mul", 22),
        Ev("use", "a", 22), Ev("use", "b", 22), Ev("use", "result", 23),
        Ev("use", "divide", 23), Ev("use", "a", 23), Ev("use", "b", 23),
        Ev("use", "result", 24), Ev("close", "", 25), Ev("use", "printf", 27),
        Ev("use", "result", 27), Ev("decl", "i", 29), Ev("open", "", 30),
        Ev("use", "i", 30), Ev("use", "i", 30), Ev("use", "i", 30),
        Ev("open", "", 30), Ev("use", "i", 31), Ev("use", "printf", 32),
        Ev("use", "i", 32), Ev("close", "", 33), Ev("close", "", 33),
        Ev("close", "", 35)
    >>

EventsOf(u) == IF u = "test_j2c_lib.c" THEN J2CEvents ELSE IF u = "test5_break_continue.c" THEN T5Events ELSE CALCEvents

\* The names visible in a stack of scopes.
Visible(scopes) == UNION {scopes[n] : n \in 1 .. Len(scopes)}

\* The next event of the unit being resolved.
Event == EventsOf(unit)[mem.pos + 1]

Resolving == pc = "resolve" /\ mem.pos < Len(EventsOf(unit))

Advance(scopes) ==
    /\ mem' = [pos |-> mem.pos + 1, scopes |-> scopes]
    /\ pc' = IF mem.pos + 1 = Len(EventsOf(unit)) THEN "done" ELSE "resolve"
    /\ UNCHANGED unit

\* Entering a function, block or for statement pushes a scope.
ResolveOpen ==
    /\ Resolving /\ Event.k = "open"
    /\ Advance(Append(mem.scopes, {}))
    /\ UNCHANGED out

\* Leaving it pops the scope.
ResolveClose ==
    /\ Resolving /\ Event.k = "close"
    /\ Advance(SubSeq(mem.scopes, 1, Len(mem.scopes) - 1))
    /\ UNCHANGED out

\* A declaration inserts its name into the current scope.
ResolveDecl ==
    /\ Resolving /\ Event.k = "decl"
    /\ Advance([mem.scopes EXCEPT ![Len(mem.scopes)] = @ \cup {Event.n}])
    /\ UNCHANGED out

\* A use is looked up innermost first; a miss is reported.
ResolveUse ==
    /\ Resolving /\ Event.k = "use"
    /\ Advance(mem.scopes)
    /\ out' = IF Event.n \in Visible(mem.scopes) THEN out
              ELSE Append(out, [error |-> "undeclared identifier", n |-> Event.n,
                                line |-> Event.line])

InitResolve ==
    /\ unit \in {"test_j2c_lib.c", "test5_break_continue.c", "calculator.c"}
    /\ pc = "resolve"
    /\ mem = [pos |-> 0, scopes |-> <<LibraryNames>>]
    /\ out = <<>>

NextResolve == ResolveOpen \/ ResolveClose \/ ResolveDecl \/ ResolveUse

SpecResolve == InitResolve /\ [][NextResolve]_vars

(***************************************************************************)
(* Arrays.  An int array of n elements is a function on 0 .. n-1.  A read  *)
(* outside the array has no value; a write outside it lands beyond the     *)
(* array (the function grows, and is then no array of n elements).         *)
(***************************************************************************)
ArrSet(a, k, v) == IF k \in DOMAIN a THEN [a EXCEPT ![k] = v] ELSE (k :> v) @@ a

FromSeq(s) == [i \in 0 .. Len(s) - 1 |-> s[i + 1]]

\* The first n elements are in ascending (non-decreasing) order.
IsSorted(a, n) == \A i \in 0 .. n - 2 : a[i] <= a[i + 1]

MaxLen == 4

MaxVal == 2

\* The sample arrays of the four sort programs and every small array.
SortInputs ==
    UNION {[0 .. n - 1 -> 0 .. MaxVal] : n \in 0 .. MaxLen}
        \cup {FromSeq(<<12, 11, 13, 5, 6>>), FromSeq(<<29, 10, 14, 37, 13>>),
              FromSeq(<<38, 27, 43, 3, 9, 82, 10>>), FromSeq(<<10, 7, 8, 9, 1, 5>>)}

(***************************************************************************)
(* insertion_sort.c                                                        *)
(***************************************************************************)
\* while (j >= 0 && arr[j] > key) { arr[j+1] = arr[j]; j = j - 1; }
RECURSIVE insertion_while(_, _, _)
insertion_while(arr, j, key) ==
    IF j >= 0 /\ arr[j] > key
    THEN insertion_while(ArrSet(arr, j + 1, arr[j]), j - 1, key)
    ELSE [arr |-> arr, j |-> j]

\* for (int i = 1; i < n; i++) { key = arr[i]; j = i - 1; while ...; arr[j+1] = key; }
RECURSIVE insertion_for(_, _, _)
insertion_for(arr, n, i) ==
    IF i < n
    THEN LET key == arr[i]
             w   == insertion_while(arr, i - 1, key)
         IN  insertion_for(ArrSet(w.arr, w.j + 1, key), n, i + 1)
    ELSE arr

insertion_sort(arr, n) == insertion_for(arr, n, 1)

(***************************************************************************)
(* selection_sort.c                                                        *)
(***************************************************************************)
\* for (j = i+1; j < n; j++) if (arr[j] < arr[min_idx]) min_idx = j;
RECURSIVE selection_inner(_, _, _, _)
selection_inner(arr, n, j, min_idx) ==
    IF j < n
    THEN selection_inner(arr, n, j + 1, IF arr[j] < arr[min_idx] THEN j ELSE min_idx)
    ELSE min_idx

\* for (i = 0; i < n-1; i++) { min_idx = i; ...; swap of arr[min_idx] and arr[i] }
RECURSIVE selection_for(_, _, _)
selection_for(arr, n, i) ==
    IF i < n - 1
    THEN LET min_idx == selection_inner(arr, n, i + 1, i)
             tmp     == arr[min_idx]
             a1      == ArrSet(arr, min_idx, arr[i])
             a2      == ArrSet(a1, i, tmp)
         IN  selection_for(a2, n, i + 1)
    ELSE arr

selection_sort(arr, n) == selection_for(arr, n, 0)

(***************************************************************************)
(* merge_sort.c                                                            *)
(***************************************************************************)
\* int L[50], R[50];
BufSize == 50

\* A local buffer of BufSize ints filled from a[from .. from + len - 1].
Buffer(a, from, len) ==
    [i \in 0 .. (IF len <= BufSize THEN len ELSE BufSize) - 1 |-> a[from + i]]

\* while (j < n2) a[k++] = R[j++];
RECURSIVE merge_right(_, _, _, _, _)
merge_right(a, R, n2, j, k) ==
    IF j < n2 THEN merge_right(ArrSet(a, k, R[j]), R, n2, j + 1, k + 1) ELSE a

\* while (i < n1) a[k++] = L[i++];  then the loop over R
RECURSIVE merge_left(_, _, _, _, _, _, _, _)
merge_left(a, L, R, n1, n2, i, j, k) ==
    IF i < n1
    THEN merge_left(ArrSet(a, k, L[i]), L, R, n1, n2, i + 1, j, k + 1)
    ELSE merge_right(a, R, n2, j, k)

\* while (i < n1 && j < n2) { if (L[i] <= R[j]) a[k++] = L[i++]; else a[k++] = R[j++]; }
RECURSIVE merge_both(_, _, _, _, _, _, _, _)
merge_both(a, L, R, n1, n2, i, j, k) ==
    IF i < n1 /\ j < n2
    THEN IF L[i] <= R[j]
         THEN merge_both(ArrSet(a, k, L[i]), L, R, n1, n2, i + 1, j, k + 1)
         ELSE merge_both(ArrSet(a, k, R[j]), L, R, n1, n2, i, j + 1, k + 1)
    ELSE merge_left(a, L, R, n1, n2, i, j, k)

merge(a, l, m, r) ==
    LET n1 == m - l + 1
        n2 == r - m
        L  == Buffer(a, l, n1)
        R  == Buffer(a, m + 1, n2)
    IN  merge_both(a, L, R, n1, n2, 0, 0, l)

RECURSIVE merge_sort(_, _, _)
merge_sort(a, l, r) ==
    IF l < r
    THEN LET m == (l + r) \div 2
         IN  merge(merge_sort(merge_sort(a, l, m), m + 1, r), l, m, r)
    ELSE a

(***************************************************************************)
(* quick_sort.c                                                            *)
(***************************************************************************)
swap_lost(a, i, j) == ArrSet(a, i, a[j])

\* int t = a[i]; a[i] = a[j]; a[j] = t;
swap(a, i, j) ==
    LET t == a[i]
    IN  ArrSet(ArrSet(a, i, a[j]), j, t)

\* for (int j = low; j <= high - 1; j++) { if (a[j] < pivot) { i++; swap(a, i, j); } }
RECURSIVE partition_for(_, _, _, _, _)
partition_for(a, high, pivot, i, j) ==
    IF j <= high - 1
    THEN IF a[j] < pivot
         THEN partition_for(swap(a, i + 1, j), high, pivot, i + 1, j + 1)
         ELSE partition_for(a, high, pivot, i, j + 1)
    ELSE [a |-> a, i |-> i]

\* The array after partitioning and the returned pivot index.
partition(a, low, high) ==
    LET pivot == a[high]
        w     == partition_for(a, high, pivot, low - 1, low)
    IN  [a |-> swap(w.a, w.i + 1, high), pi |-> w.i + 1]

RECURSIVE quick_sort(_, _, _)
quick_sort(a, low, high) ==
    IF low < high
    THEN LET p == partition(a, low, high)
         IN  quick_sort(quick_sort(p.a, low, p.pi - 1), p.pi + 1, high)
    ELSE a

(***************************************************************************)
(* The main of each sort program: the call on its data, then the print of  *)
(* the sorted array.                                                       *)
(***************************************************************************)
\* print_array(data, n)
print_array(a, n) == [i \in 1 .. n |-> Pr("%d ", <<a[i - 1]>>)]

SortCall(u, sorted) ==
    /\ unit = u /\ pc = "call"
    /\ mem' = [mem EXCEPT !.data = sorted]
    /\ out' = print_array(mem.data, mem.n) \o print_array(sorted, mem.n)
    /\ pc' = "done"
    /\ UNCHANGED unit

InitSort ==
    /\ unit \in {"insertion_sort.c", "selection_sort.c", "merge_sort.c", "quick_sort.c"}
    /\ pc = "call"
    /\ \E a \in SortInputs :
          mem = [input |-> a, data |-> a, n |-> Cardinality(DOMAIN a)]
    /\ out = <<>>

NextSort ==
    \/ SortCall("insertion_sort.c", insertion_sort(mem.data, mem.n))
    \/ SortCall("selection_sort.c", selection_sort(mem.data, mem.n))
    \/ SortCall("merge_sort.c", merge_sort(mem.data, 0, mem.n - 1))
    \/ SortCall("quick_sort.c", quick_sort(mem.data, 0, mem.n - 1))

SpecSort == InitSort /\ [][NextSort]_vars

(***************************************************************************)
(* binary_search.c and linear_search.c                                     *)
(***************************************************************************)
\* a / b of C for b > 0 (the quotient truncates toward zero).
CDiv(a, b) == IF a < 0 THEN -((-a) \div b) ELSE a \div b

SmallArrays == UNION {[0 .. n - 1 -> 0 .. MaxVal] : n \in 0 .. MaxLen}

\* int arr[] = {5, 10, 15, 20, 25, 30, 35, 40, 45, 50}; int n = 10; int target = 30;
BinSample == [arr |-> FromSeq(<<5, 10, 15, 20, 25, 30, 35, 40, 45, 50>>), target |-> 30]

\* int arr[] = {10, 20, 30, 40, 50, 60, 70}; int n = 7; int target = 40;
LinSample == [arr |-> FromSeq(<<10, 20, 30, 40, 50, 60, 70>>), target |-> 40]

\* The sorted arrays binary_search is called on, with the targets.
BinInputs ==
    {[arr |-> a, target |-> t] :
        a \in {b \in SmallArrays : IsSorted(b, Cardinality(DOMAIN b))}, t \in -1 .. MaxVal + 1}
        \cup {BinSample, LinSample}

LinInputs ==
    {[arr |-> a, target |-> t] : a \in SmallArrays, t \in -1 .. MaxVal + 1}
        \cup {BinSample, LinSample}

\* for (i = 0; i < n; i++) { if (arr[i] == target) return i; } return -1;
RECURSIVE linear_for(_, _, _, _)
linear_for(arr, n, target, i) ==
    IF i < n
    THEN IF arr[i] = target THEN i ELSE linear_for(arr, n, target, i + 1)
    ELSE -1

linear_search(arr, n, target) == linear_for(arr, n, target, 0)

\* The test of binary_search's loop.
WhileLeftBelowRight(left, right) == left < right

WhileLeftRight(left, right) == left <= right

\* int left = 0; int right = n - 1; int mid;
BS_Init ==
    /\ unit = "binary_search.c" /\ pc = "bs_init"
    /\ \E g \in Indeterminate :
          mem' = [mem EXCEPT !.left = 0, !.right = mem.n - 1, !.mid = g]
    /\ pc' = "bs_while"
    /\ UNCHANGED <<unit, out>>

\* while (left <= right) ... return -1;
BS_While ==
    /\ unit = "binary_search.c" /\ pc = "bs_while"
    /\ IF WhileLeftRight(mem.left, mem.right)
       THEN mem' = mem /\ pc' = "bs_mid"
       ELSE mem' = [mem EXCEPT !.result = -1] /\ pc' = "bs_return"
    /\ UNCHANGED <<unit, out>>

\* mid = (left + right) / 2;
BS_Mid ==
    /\ unit = "binary_search.c" /\ pc = "bs_mid"
    /\ \E sum \in AddInt(mem.left, mem.right) :
          mem' = [mem EXCEPT !.mid = CDiv(sum, 2)]
    /\ pc' = "bs_compare"
    /\ UNCHANGED <<unit, out>>

\* if (arr[mid] == target) return mid; else if (arr[mid] < target) left = mid + 1;
\* else right = mid - 1;
BS_Compare ==
    /\ unit = "binary_search.c" /\ pc = "bs_compare"
    /\ LET at == mem.arr[mem.mid]
       IN  IF at = mem.target
           THEN mem' = [mem EXCEPT !.result = mem.mid] /\ pc' = "bs_return"
           ELSE IF at < mem.target
           THEN mem' = [mem EXCEPT !.left = mem.mid + 1] /\ pc' = "bs_while"
           ELSE mem' = [mem EXCEPT !.right = mem.mid - 1] /\ pc' = "bs_while"
    /\ UNCHANGED <<unit, out>>

\* main: result = binary_search(arr, n, target); and the report of the result
SearchReport(found, notFound) ==
    IF mem.result # -1
    THEN Append(out, Pr(found, <<mem.target, mem.result>>))
    ELSE Append(out, Pr(notFound, <<mem.target>>))

BS_Return ==
    /\ unit = "binary_search.c" /\ pc = "bs_return"
    /\ out' = SearchReport("Target %d found at index %d", "Target %d not found")
    /\ pc' = "done"
    /\ UNCHANGED <<unit, mem>>

\* main of linear_search.c: result = linear_search(arr, n, target);
LIN_Call ==
    /\ unit = "linear_search.c" /\ pc = "lin_call"
    /\ mem' = [mem EXCEPT !.result = linear_search(mem.arr, mem.n, mem.target)]
    /\ pc' = "lin_return"
    /\ UNCHANGED <<unit, out>>

LIN_Return ==
    /\ unit = "linear_search.c" /\ pc = "lin_return"
    /\ out' = SearchReport("Element %d found at index %d", "Element %d not found")
    /\ pc' = "done"
    /\ UNCHANGED <<unit, mem>>

InitSearch ==
    /\ \/ unit = "binary_search.c" /\ pc = "bs_init"
       \/ unit = "linear_search.c" /\ pc = "lin_call"
    /\ \E in \in (IF unit = "binary_search.c" THEN BinInputs ELSE LinInputs),
          g \in Indeterminate :
          mem = [arr |-> in.arr, n |-> Cardinality(DOMAIN in.arr),
                 target |-> in.target, left |-> g, right |-> g, mid |-> g,
                 result |-> g]
    /\ out = <<>>

NextSearch ==
    \/ BS_Init \/ BS_While \/ BS_Mid \/ BS_Compare \/ BS_Return
    \/ LIN_Call \/ LIN_Return

\* A running program takes its next step.
SpecSearch == InitSearch /\ [][NextSearch]_vars /\ WF_vars(NextSearch)

(***************************************************************************)
(* gcd_euclid.c (recursive) and gcd_lcm.c (iterative).                     *)
(***************************************************************************)
MaxG == 6

\* The pairs gcd is called on: the pairs of the two mains and every small pair.
GcdInputs ==
    ((-MaxG .. MaxG) \X (-MaxG .. MaxG)) \cup {<<48, 18>>, <<270, 192>>, <<48, 180>>}

\* a >= 0 ? a : -a      and      if (a < 0) a = -a;
AbsIntMissing(a) == {a}

\* -a of INT_MIN overflows.
AbsInt(a) == IF a >= 0 THEN {a} ELSE IF a = INT_MIN THEN IntSamples ELSE {-a}

\* gcd_euclid.c, gcd(a, b): one call.  `if (b == 0) return a >= 0 ? a : -a;`
\* returns; otherwise the call `gcd(b, a % b)` opens a new frame.
GE_Call ==
    /\ unit = "gcd_euclid.c" /\ pc = "ge_call"
    /\ IF mem.b = 0
       THEN /\ \E r \in AbsInt(mem.a) : mem' = [mem EXCEPT !.result = r]
            /\ pc' = "ge_return"
       ELSE /\ mem' = [mem EXCEPT !.a = mem.b, !.b = CRem(mem.a, mem.b),
                                   !.depth = @ + 1]
            /\ pc' = "ge_call"
    /\ UNCHANGED <<unit, out>>

\* `return gcd(b, a % b);` hands the callee's result to the caller, frame by frame;
\* main prints it.
GE_Return ==
    /\ unit = "gcd_euclid.c" /\ pc = "ge_return"
    /\ IF mem.depth > 0
       THEN /\ mem' = [mem EXCEPT !.depth = @ - 1]
            /\ pc' = "ge_return"
            /\ out' = out
       ELSE /\ mem' = mem
            /\ pc' = "done"
            /\ out' = Append(out, Pr("GCD of %d and %d is %d",
                                     <<mem.a0, mem.b0, mem.result>>))
    /\ UNCHANGED unit

\* gcd_lcm.c, gcd(a, b): if (a < 0) a = -a; if (b < 0) b = -b;
GL_Abs ==
    /\ unit = "gcd_lcm.c" /\ pc = "gl_abs"
    /\ \E a \in AbsInt(mem.a), b \in AbsInt(mem.b) : mem' = [mem EXCEPT !.a = a, !.b = b]
    /\ pc' = "gl_while"
    /\ UNCHANGED <<unit, out>>

\* while (b != 0) { int t = b; b = a % b; a = t; } return a;
GL_While ==
    /\ unit = "gcd_lcm.c" /\ pc = "gl_while"
    /\ IF mem.b # 0
       THEN /\ mem' = [mem EXCEPT !.t = mem.b, !.b = CRem(mem.a, mem.b), !.a = mem.b]
            /\ pc' = "gl_while"
       ELSE /\ mem' = [mem EXCEPT !.result = mem.a]
            /\ pc' = "gl_return"
    /\ UNCHANGED <<unit, out>>

\* printf("GCD: %d\n", gcd(x,y));
GL_Return ==
    /\ unit = "gcd_lcm.c" /\ pc = "gl_return"
    /\ out' = Append(out, Pr("GCD: %d", <<mem.result>>))
    /\ pc' = "done"
    /\ UNCHANGED <<unit, mem>>

InitGcd ==
    /\ \/ unit = "gcd_euclid.c" /\ pc = "ge_call"
       \/ unit = "gcd_lcm.c" /\ pc = "gl_abs"
    /\ \E in \in GcdInputs, g \in Indeterminate :
          mem = [a0 |-> in[1], b0 |-> in[2], a |-> in[1], b |-> in[2], t |-> g,
                 result |-> g, depth |-> 0]
    /\ out = <<>>

NextGcd == GE_Call \/ GE_Return \/ GL_Abs \/ GL_While \/ GL_Return

\* A running program takes its next step.
SpecGcd == InitGcd /\ [][NextGcd]_vars /\ WF_vars(NextGcd)

(***************************************************************************)
(* pow_fast.c and fast_power.c.  The result types long and long long are   *)
(* modelled with the range of a 32-bit long.                               *)
(***************************************************************************)
LONG_MAX == INT_MAX

\* Values a long may hold after a signed overflow.
LongSamples == {-LONG_MAX, -1, 0, 1, 2, LONG_MAX}

Magnitude(a) == IF a < 0 THEN -a ELSE a

MulFits(a, b) == a = 0 \/ b = 0 \/ Magnitude(a) <= LONG_MAX \div Magnitude(b)

\* The possible results of the product a * b.
MulLong(a, b) == IF MulFits(a, b) THEN {a * b} ELSE LongSamples

\* exp & 1
LowBitClear(e) == e % 2 = 0

LowBit(e) == e % 2 = 1

\* exp >> 1, exp >= 0
ShiftRight(e) == e \div 2

MaxBase == 7

MaxExp == 8

PowInputs ==
    ((-MaxBase .. MaxBase) \X (0 .. MaxExp))
        \cup {<<2, 10>>, <<3, 7>>, <<5, 0>>, <<3, 13>>, <<2, 30>>}

\* long pow_fast(long base, int exp) { long res = 1;
PF_Init ==
    /\ unit = "pow_fast.c" /\ pc = "pf_init"
    /\ mem' = [mem EXCEPT !.res = 1]
    /\ pc' = "pf_while"
    /\ UNCHANGED <<unit, out>>

\* while (exp > 0)
PF_While ==
    /\ unit = "pow_fast.c" /\ pc = "pf_while"
    /\ pc' = IF mem.exp > 0 THEN "pf_body" ELSE "pf_return"
    /\ UNCHANGED <<unit, mem, out>>

\* if (exp & 1) res *= base; base *= base; exp >>= 1;
PF_Body ==
    /\ unit = "pow_fast.c" /\ pc = "pf_body"
    /\ \E r \in (IF LowBit(mem.exp) THEN MulLong(mem.res, mem.base) ELSE {mem.res}) :
       \E b \in MulLong(mem.base, mem.base) :
          mem' = [mem EXCEPT !.res = r, !.base = b, !.exp = ShiftRight(mem.exp)]
    /\ pc' = "pf_while"
    /\ UNCHANGED <<unit, out>>

\* return res;  and main's printf("... = %ld\n", pow_fast(...));
PF_Return ==
    /\ unit = "pow_fast.c" /\ pc = "pf_return"
    /\ out' = Append(out, Pr("%ld^%d = %ld", <<mem.base0, mem.exp0, mem.res>>))
    /\ pc' = "done"
    /\ UNCHANGED <<unit, mem>>

\* long long fast_pow(long long base, long long exp) { long long result = 1;
\* long long b = base;
FP_Init ==
    /\ unit = "fast_power.c" /\ pc = "fp_init"
    /\ mem' = [mem EXCEPT !.res = 1, !.base = mem.base0]
    /\ pc' = "fp_while"
    /\ UNCHANGED <<unit, out>>

\* while (exp > 0)
FP_While ==
    /\ unit = "fast_power.c" /\ pc = "fp_while"
    /\ pc' = IF mem.exp > 0 THEN "fp_body" ELSE "fp_return"
    /\ UNCHANGED <<unit, mem, out>>

\* if (exp & 1) result *= b; b *= b; exp >>= 1;
FP_Body ==
    /\ unit = "fast_power.c" /\ pc = "fp_body"
    /\ \E r \in (IF LowBit(mem.exp) THEN MulLong(mem.res, mem.base) ELSE {mem.res}) :
       \E b \in MulLong(mem.base, mem.base) :
          mem' = [mem EXCEPT !.res = r, !.base = b, !.exp = ShiftRight(mem.exp)]
    /\ pc' = "fp_while"
    /\ UNCHANGED <<unit, out>>

\* return result;  and main's printf("%lld^%lld = %lld\n", b, e, fast_pow(b,e));
FP_Return ==
    /\ unit = "fast_power.c" /\ pc = "fp_return"
    /\ out' = Append(out, Pr("%lld^%lld = %lld", <<mem.base0, mem.exp0, mem.res>>))
    /\ pc' = "done"
    /\ UNCHANGED <<unit, mem>>

\* res and base stand for result and b in fast_power.c.
InitPow ==
    /\ \/ unit = "pow_fast.c" /\ pc = "pf_init"
       \/ unit = "fast_power.c" /\ pc = "fp_init"
    /\ \E in \in PowInputs, g \in Indeterminate :
          mem = [base0 |-> in[1], exp0 |-> in[2], base |-> in[1], exp |-> in[2],
                 res |-> g]
    /\ out = <<>>

NextPow ==
    \/ PF_Init \/ PF_While \/ PF_Body \/ PF_Return
    \/ FP_Init \/ FP_While \/ FP_Body \/ FP_Return

\* A running program takes its next step.
SpecPow == InitPow /\ [][NextPow]_vars /\ WF_vars(NextPow)

(***************************************************************************)
(* sieve_eratosthenes.c (main), prime_sieve.c (sieve) and                  *)
(* count_primes_range.c (is_prime, main).  The literals N = 30, n = 50 and *)
(* n = 100 are the inputs: they range over 2 .. MaxN and the three         *)
(* literals.  The array is_prime has the indices 0 .. N (malloc(N+1); the  *)
(* part of is_prime[1000] that sieve(n) initialises): an access outside it *)
(* has no value.  The two sieves differ in the name of the inner loop      *)
(* variable (k, multiple), held here in k.                                 *)
(***************************************************************************)
MaxN == 12

\* int k = p*p       and      int multiple = p * p
CrossStartAtP(p) == p

CrossStart(p) == p * p

\* for (int i = 2; i*i <= x; ++i) if (x % i == 0) return 0;   return 1;
RECURSIVE is_prime_for(_, _)
is_prime_for(x, i) ==
    IF i * i <= x
    THEN IF CRem(x, i) = 0 THEN 0 ELSE is_prime_for(x, i + 1)
    ELSE 1

\* int is_prime(int x) { if (x < 2) return 0; ... }
is_prime(x) == IF x < 2 THEN 0 ELSE is_prime_for(x, 2)

\* memset(is_prime, 1, N+1)  /  for (int i = 0; i <= n; ++i) is_prime[i] = 1;
\* is_prime[0] = is_prime[1] = 0;  int p = 2
SV_Init ==
    /\ unit \in {"sieve_eratosthenes.c", "prime_sieve.c"} /\ pc = "sv_init"
    /\ mem' = [mem EXCEPT !.is_prime = [[x \in 0 .. mem.N |-> 1] EXCEPT ![1] = 0, ![0] = 0],
                          !.p = 2]
    /\ pc' = "sv_outer"
    /\ UNCHANGED <<unit, out>>

\* p*p <= N   (the test of the outer loop); after the loop the heading is printed
SV_OuterCond ==
    /\ unit \in {"sieve_eratosthenes.c", "prime_sieve.c"} /\ pc = "sv_outer"
    /\ IF mem.p * mem.p <= mem.N
       THEN /\ pc' = "sv_if"
            /\ UNCHANGED <<mem, out>>
       ELSE /\ pc' = "sv_print"
            /\ mem' = [mem EXCEPT !.i = 2]
            /\ out' = IF unit = "sieve_eratosthenes.c"
                      THEN Append(out, Pr("Primes up to %d:", <<mem.N>>))
                      ELSE out
    /\ UNCHANGED unit

\* if (is_prime[p]) { for (int k = p*p; ...   else   ++p
SV_If ==
    /\ unit \in {"sieve_eratosthenes.c", "prime_sieve.c"} /\ pc = "sv_if"
    /\ IF mem.is_prime[mem.p] # 0
       THEN mem' = [mem EXCEPT !.k = CrossStart(mem.p)] /\ pc' = "sv_inner"
       ELSE \E r \in PreIncr(mem.p) : mem' = [mem EXCEPT !.p = r.var] /\ pc' = "sv_outer"
    /\ UNCHANGED <<unit, out>>

\* k <= N; is_prime[k] = 0; k += p     and at the end of the inner loop   ++p
SV_Inner ==
    /\ unit \in {"sieve_eratosthenes.c", "prime_sieve.c"} /\ pc = "sv_inner"
    /\ IF mem.k <= mem.N
       THEN \E v \in AddInt(mem.k, mem.p) :
               /\ mem' = [mem EXCEPT !.is_prime[mem.k] = 0, !.k = v]
               /\ pc' = "sv_inner"
       ELSE \E r \in PreIncr(mem.p) : mem' = [mem EXCEPT !.p = r.var] /\ pc' = "sv_outer"
    /\ UNCHANGED <<unit, out>>

\* for (int i = 2; i <= N; ++i) if (is_prime[i]) printf("%d ", i);   printf("\n");
SV_Print ==
    /\ unit \in {"sieve_eratosthenes.c", "prime_sieve.c"} /\ pc = "sv_print"
    /\ IF mem.i <= mem.N
       THEN /\ out' = IF mem.is_prime[mem.i] # 0
                      THEN Append(out, Pr("%d ", <<mem.i>>))
                      ELSE out
            /\ \E r \in PreIncr(mem.i) : mem' = [mem EXCEPT !.i = r.var]
            /\ pc' = "sv_print"
       ELSE /\ out' = Append(out, Pr("\n", <<>>))
            /\ pc' = "done"
            /\ UNCHANGED mem
    /\ UNCHANGED unit

\* count_primes_range.c, main:
\* for (int i = 2; i <= n; ++i) if (is_prime(i)) ++count;   printf(..., n, count);
CP_Loop ==
    /\ unit = "count_primes_range.c" /\ pc = "cp_loop"
    /\ IF mem.i <= mem.N
       THEN /\ \E c \in (IF is_prime(mem.i) # 0 THEN PreIncr(mem.count)
                         ELSE {[var |-> mem.count, val |-> mem.count]}),
                 r \in PreIncr(mem.i) :
                   mem' = [mem EXCEPT !.count = c.var, !.i = r.var]
            /\ pc' = "cp_loop"
            /\ UNCHANGED out
       ELSE /\ out' = Append(out, Pr("Primes up to %d: %d", <<mem.N, mem.count>>))
            /\ pc' = "done"
            /\ UNCHANGED mem
    /\ UNCHANGED unit

\* int N = 30;  /  int n = 50; sieve(n);  /  int n = 100; int count = 0; int i = 2
InitSieve ==
    /\ \E N \in (2 .. MaxN) \cup {30, 50, 100}, g \in Indeterminate :
          \/ /\ unit \in {"sieve_eratosthenes.c", "prime_sieve.c"}
             /\ pc = "sv_init"
             /\ mem = [N |-> N, is_prime |-> [x \in 0 .. N |-> g], p |-> g,
                       k |-> g, i |-> g]
          \/ /\ unit = "count_primes_range.c"
             /\ pc = "cp_loop"
             /\ mem = [N |-> N, i |-> 2, count |-> 0]
    /\ out = <<>>

NextSieve == SV_Init \/ SV_OuterCond \/ SV_If \/ SV_Inner \/ SV_Print \/ CP_Loop

\* A running program takes its next step.
SpecSieve == InitSieve /\ [][NextSieve]_vars /\ WF_vars(NextSieve)

\* k holds the mathematical value j0 + d (which must then be an int).
IsPlus(k, j0, d) == j0 <= INT_MAX - d /\ k = j0 + d

\* C1 (as stated): after `int k = ++j + 1` from j = 3, k = 5 and j = 4; after the
\* postfix variant `k = j++ + 1`, k = 4 and j = 4; and for EVERY starting int j0 the
\* prefix form gives k = j0 + 2, the postfix form k = j0 + 1, both leave j = j0 + 1.
C1_Original ==
    pc = "done" /\ unit \in {"test9_casting_prefix.c", "postfix_variant"} =>
        /\ IsPlus(mem.j, mem.j0, 1)
        /\ unit = "test9_casting_prefix.c" => IsPlus(mem.k, mem.j0, 2)
        /\ unit = "postfix_variant" => IsPlus(mem.k, mem.j0, 1)

\* C1 (amended): the same, for every starting int j0 whose results are representable:
\* j0 <= INT_MAX - 2 for the prefix form, j0 <= INT_MAX - 1 for the postfix form.
C1_IncrementValues ==
    pc = "done" /\ unit \in {"test9_casting_prefix.c", "postfix_variant"} =>
        /\ unit = "test9_casting_prefix.c" /\ mem.j0 <= INT_MAX - 2 =>
              mem.k = mem.j0 + 2 /\ mem.j = mem.j0 + 1
        /\ unit = "postfix_variant" /\ mem.j0 <= INT_MAX - 1 =>
              mem.k = mem.j0 + 1 /\ mem.j = mem.j0 + 1
        /\ unit = "test9_casting_prefix.c" /\ mem.j0 = 3 => mem.k = 5 /\ mem.j = 4
        /\ unit = "postfix_variant" /\ mem.j0 = 3 => mem.k = 4 /\ mem.j = 4

C1_Witness ==
    /\ pc = "done" /\ unit = "test9_casting_prefix.c"
    /\ mem.j0 = 3 /\ mem.k = 5 /\ mem.j = 4
    /\ out[Len(out)] = Pr("k = %d", <<5>>)

IsPrefix(s, t) == Len(s) <= Len(t) /\ SubSeq(t, 1, Len(s)) = s

\* The switch of the unit has been left.
SwitchFinished == mem.ci # 0 /\ pc \notin {"sw_dispatch", "sw_body", "sw_break"}

\* The entry whose body must run: the entry of the label, else the default (the last).
ExpectedEntry(sel, nLabels) == IF sel \in 1 .. nLabels THEN sel ELSE nLabels + 1

IsSwitchLine(e) ==
    e.fmt \in {"Mon", "Tue", "Wed", "Monday", "Tuesday", "Wednesday", "Other"}

\* C2: in a switch whose labels 1, 2, 3 each run one statement then break and whose
\* default runs one statement, exactly one body runs for every selector value: the
\* body of the matching label, else the default body; with selector 3 only the
\* case-3 line is printed and the default body is not entered; in calculator.c
\* result is assigned exactly once for every op.
C2_OneBranch ==
    unit \in {"all_features.c", "all_features.cpp", "calculator.c"} =>
        /\ Len(mem.ran) <= 1
        /\ Len(SelectSeq(out, IsSwitchLine)) <= 1
        /\ unit = "calculator.c" => mem.assigns <= 1
        /\ SwitchFinished =>
              LET sw == SwitchOf(unit, mem)
                  e  == ExpectedEntry(sw.sel, Len(sw.cases) - 1)
              IN  /\ mem.ran = <<e>>
                  /\ unit \in {"all_features.c", "all_features.cpp"} =>
                        /\ SelectSeq(out, IsSwitchLine) = <<sw.cases[e].stmt.pr>>
                        /\ mem.day = 3 =>
                              SelectSeq(out, IsSwitchLine)
                                  = <<Pr(IF unit = "all_features.c" THEN "Wed" ELSE "Wednesday", <<>>)>>
                  /\ unit = "calculator.c" =>
                        /\ mem.assigns = 1
                        /\ mem.result = sw.cases[e].stmt.val

C2_Witness ==
    /\ unit = "all_features.c" /\ pc = "done" /\ mem.day = 3
    /\ mem.ran = <<3>>
    /\ out[Len(out)] = Pr("Wed", <<>>)

IsLoopLine(e) == e.fmt \in {"%d", "Breaking at: %d", "i = %d"}

T5ForOutput == << Pr("%d", <<1>>), Pr("%d", <<2>>), Pr("Breaking at: %d", <<3>>) >>

AFForOutput ==
    << Pr("%d", <<1>>), Pr("%d", <<3>>), Pr("%d", <<5>>), Pr("%d", <<7>>),
       Pr("%d", <<9>>) >>

CALCForOutput ==
    << Pr("i = %d", <<1>>), Pr("i = %d", <<2>>), Pr("i = %d", <<4>>),
       Pr("i = %d", <<5>>) >>

\* C3: break and continue bind to the nearest enclosing loop: the for loop of
\* test5_break_continue.c prints exactly 1 then 2, then 'Breaking at: 3' once, and
\* runs no iteration with i > 3; the loop of all_features.c prints exactly 1, 3, 5,
\* 7, 9 in increasing order and is left with i = 11; the loop of calculator.c prints
\* exactly 1, 2, 4, 5.
C3_BreakContinue ==
    /\ unit = "test5_break_continue.c" =>
          /\ IsPrefix(SelectSeq(out, IsLoopLine), T5ForOutput)
          /\ pc \in {"t5_for_if", "t5_for_print", "t5_for_incr"} => mem.i <= 3
          /\ pc = T5For.exit => SelectSeq(out, IsLoopLine) = T5ForOutput /\ mem.i = 3
    /\ unit \in {"all_features.c", "all_features.cpp"} =>
          /\ IsPrefix(SelectSeq(out, IsLoopLine), AFForOutput)
          /\ pc = AFFor(unit).exit =>
                SelectSeq(out, IsLoopLine) = AFForOutput /\ mem.i = 11
    /\ unit = "calculator.c" =>
          /\ IsPrefix(SelectSeq(out, IsLoopLine), CALCForOutput)
          /\ pc = CALCFor.exit => SelectSeq(out, IsLoopLine) = CALCForOutput

C3_Witness ==
    /\ unit = "all_features.c" /\ pc = AFFor("all_features.c").exit /\ mem.i = 11
    /\ SelectSeq(out, IsLoopLine) = AFForOutput

\* The names declared so far and, of these, the ones a step may change.
Declared(m) == DOMAIN m.env

Injective(f) == \A x, y \in DOMAIN f : f[x] = f[y] => x = y

\* The step changes no declared object but those named in `names`.
OnlyChanges(names) ==
    \A n \in Declared(mem) \ names : n \in Declared(mem') /\ Load(mem', n) = Load(mem, n)

\* C4: `int a, b, c;` and `int x = 5, y = 10, z = 15;` introduce three independent
\* variables each with its own storage: an assignment to one leaves the others
\* unchanged, and test8_multivar_define.c reaches a = 10, b = 20, c = 30 with
\* x = 5, y = 10, z = 15 and prints x + y + z = 30.
C4_IndependentStorage ==
    [][unit = "test8_multivar_define.c" =>
          /\ Injective(mem'.env)
          /\ pc = "t8_decl_abc" => Declared(mem') = {"a", "b", "c"}
          /\ pc = "t8_assign_a" => OnlyChanges({"a"}) /\ Load(mem', "a") = 10
          /\ pc = "t8_assign_b" => OnlyChanges({"b"}) /\ Load(mem', "b") = 20
          /\ pc = "t8_assign_c" => OnlyChanges({"c"}) /\ Load(mem', "c") = 30
          /\ pc = "t8_decl_xyz" =>
                /\ OnlyChanges({})
                /\ Declared(mem') = {"a", "b", "c", "x", "y", "z"}
                /\ Load(mem', "x") = 5 /\ Load(mem', "y") = 10 /\ Load(mem', "z") = 15
          /\ pc' = "done" =>
                /\ Load(mem', "a") = 10 /\ Load(mem', "b") = 20 /\ Load(mem', "c") = 30
                /\ Load(mem', "x") = 5 /\ Load(mem', "y") = 10 /\ Load(mem', "z") = 15
                /\ out' = << Pr("c = %d", <<30>>), Pr("MAX = %d", <<100>>),
                             Pr("PI = %f", <<"3.14159">>),
                             Pr("x + y + z = %d", <<30>>) >>
      ]_vars

C4_Witness ==
    /\ unit = "test8_multivar_define.c" /\ pc = "done"
    /\ Load(mem, "a") = 10 /\ Load(mem, "b") = 20 /\ Load(mem, "c") = 30
    /\ Load(mem, "x") + Load(mem, "y") + Load(mem, "z") = 30

\* C5: a struct brace initializer assigns its values to the fields in declaration
\* order and struct variables do not share storage: q = {10, 20} gives q.x = 10 and
\* q.y = 20, the assignments to p leave every other object unchanged and the
\* initialization of q leaves p unchanged, so test11_struct.c computes dist = 7 and
\* area(r.width, r.height) = 40.
C5_StructInit ==
    [][unit = "test11_struct.c" =>
          /\ Injective(mem'.env)
          /\ pc = "t11_assign_px" => OnlyChanges({"p.x"}) /\ Load(mem', "p.x") = 3
          /\ pc = "t11_assign_py" => OnlyChanges({"p.y"}) /\ Load(mem', "p.y") = 4
          /\ pc = "t11_decl_q" =>
                /\ OnlyChanges({})
                /\ Load(mem', "q.x") = 10 /\ Load(mem', "q.y") = 20
                /\ Load(mem', "p.x") = 3 /\ Load(mem', "p.y") = 4
          /\ pc = "t11_dist" => OnlyChanges({}) /\ Load(mem', "dist") = 7
          /\ pc = "t11_decl_r" => OnlyChanges({})
          /\ pc' = "done" =>
                /\ Load(mem', "p.x") = 3 /\ Load(mem', "p.y") = 4
                /\ Load(mem', "q.x") = 10 /\ Load(mem', "q.y") = 20
                /\ Load(mem', "dist") = 7 /\ Load(mem', "a") = 40
                /\ out' = << Pr("Point: (%d, %d)", <<3, 4>>), Pr("Q: (%d, %d)", <<10, 20>>),
                             Pr("dist = %d", <<7>>), Pr("Area = %d", <<40>>) >>
      ]_vars

C5_Witness ==
    /\ unit = "test11_struct.c" /\ pc = "done"
    /\ Load(mem, "q.x") = 10 /\ Load(mem, "q.y") = 20
    /\ Load(mem, "dist") = 7 /\ Load(mem, "a") = 40

\* C6: no partial emission: in an emitted translation unit every identifier that is
\* used is declared in an enclosing scope at the point of use; in main of
\* test_j2c_lib.c the loop variable i is declared in scope before it is read in the
\* loop condition `i <= 5`, incremented by `i++` and printed in the body.
C6_UsesDeclared ==
    unit = "test_j2c_lib.c" /\ Resolving /\ Event.k = "use" => Event.n \in Visible(mem.scopes)

Occurrences(a, v) == Cardinality({i \in DOMAIN a : a[i] = v})

IsPermutation(a, b) ==
    /\ DOMAIN a = DOMAIN b
    /\ \A i \in DOMAIN b : Occurrences(a, b[i]) = Occurrences(b, b[i])

\* C7: for every int array of length n >= 0 (duplicates allowed) insertion_sort,
\* selection_sort, merge_sort(a, 0, n-1) and quick_sort(a, 0, n-1) each return with
\* positions 0..n-1 in non-decreasing order holding a permutation of the input, so
\* all four produce the same array (12 11 13 5 6 becomes 5 6 11 12 13 and
\* 38 27 43 3 9 82 10 becomes 3 9 10 27 38 43 82).
C7_SortsAgree ==
    unit \in {"insertion_sort.c", "selection_sort.c", "merge_sort.c", "quick_sort.c"} /\ pc = "done" =>
        /\ DOMAIN mem.data = 0 .. mem.n - 1
        /\ IsSorted(mem.data, mem.n)
        /\ IsPermutation(mem.data, mem.input)
        /\ mem.data = insertion_sort(mem.input, mem.n)
        /\ mem.data = selection_sort(mem.input, mem.n)
        /\ mem.data = merge_sort(mem.input, 0, mem.n - 1)
        /\ mem.data = quick_sort(mem.input, 0, mem.n - 1)
        /\ mem.input = FromSeq(<<12, 11, 13, 5, 6>>) =>
              mem.data = FromSeq(<<5, 6, 11, 12, 13>>)
        /\ mem.input = FromSeq(<<38, 27, 43, 3, 9, 82, 10>>) =>
              mem.data = FromSeq(<<3, 9, 10, 27, 38, 43, 82>>)

C7_Witness ==
    /\ unit = "merge_sort.c" /\ pc = "done"
    /\ mem.input = FromSeq(<<38, 27, 43, 3, 9, 82, 10>>)
    /\ mem.data = FromSeq(<<3, 9, 10, 27, 38, 43, 82>>)
    /\ Len(out) = 14

Occurs(arr, n, target) == \E i \in 0 .. n - 1 : arr[i] = target

Max(x, y) == IF x >= y THEN x ELSE y

\* The greatest common divisor of two naturals (0 for 0 and 0).
MathGcd(x, y) ==
    IF x = 0 /\ y = 0 THEN 0
    ELSE CHOOSE d \in 1 .. Max(x, y) :
            /\ x % d = 0 /\ y % d = 0
            /\ \A e \in 1 .. Max(x, y) : x % e = 0 /\ y % e = 0 => e <= d

\* C9: for every pair of ints (a, b), negative and zero values included (INT_MIN
\* excluded), the recursive gcd of gcd_euclid.c and the iterative gcd of gcd_lcm.c
\* both terminate and return the same non-negative value, the greatest common
\* divisor of |a| and |b| (|a| when b = 0, 0 when both are 0); gcd(48, 18) = 6 and
\* gcd(270, 192) = 6.
C9_GcdAgree ==
    /\ [](unit \in {"gcd_euclid.c", "gcd_lcm.c"} /\ pc \in {"ge_return", "gl_return", "done"} =>
            /\ mem.result >= 0
            /\ mem.result = MathGcd(Magnitude(mem.a0), Magnitude(mem.b0))
            /\ mem.b0 = 0 => mem.result = Magnitude(mem.a0)
            /\ mem.a0 = 0 /\ mem.b0 = 0 => mem.result = 0
            /\ <<mem.a0, mem.b0>> \in {<<48, 18>>, <<270, 192>>} => mem.result = 6)
    /\ <>(pc = "done")

C9_Witness ==
    /\ unit = "gcd_euclid.c" /\ pc = "done"
    /\ mem.a0 = 270 /\ mem.b0 = 192 /\ mem.result = 6
    /\ out = <<Pr("GCD of %d and %d is %d", <<270, 192, 6>>)>>

\* b to the power e when it fits the result type (ok), by repeated multiplication.
RECURSIVE Power(_, _)
Power(b, e) ==
    IF e = 0 THEN [ok |-> TRUE, v |-> 1]
    ELSE LET p == Power(b, e - 1)
         IN  IF p.ok /\ MulFits(p.v, b) THEN [ok |-> TRUE, v |-> p.v * b]
             ELSE [ok |-> FALSE, v |-> 0]

\* res * base^exp = base0^exp0
PowInvariant ==
    LET q == Power(mem.base, mem.exp)
    IN  /\ q.ok
        /\ MulFits(mem.res, q.v)
        /\ mem.res * q.v = Power(mem.base0, mem.exp0).v

\* C10: for every base and every exp >= 0 whose power fits the result type,
\* pow_fast(base, exp) and fast_pow(base, exp) terminate and return base raised to
\* exp (1 when exp = 0, also for base 0), keeping at the head of every loop
\* iteration result * base^exp = (initial base)^(initial exp); pow_fast(2,10) = 1024,
\* pow_fast(3,7) = 2187, pow_fast(5,0) = 1 and fast_pow(3,13) = 1594323.
C10_FastPower ==
    /\ [](unit \in {"pow_fast.c", "fast_power.c"} /\ Power(mem.base0, mem.exp0).ok =>
            /\ pc \in {"pf_while", "fp_while"} => PowInvariant
            /\ pc \in {"pf_return", "fp_return", "done"} =>
                  /\ mem.res = Power(mem.base0, mem.exp0).v
                  /\ mem.exp0 = 0 => mem.res = 1
                  /\ <<mem.base0, mem.exp0>> = <<2, 10>> => mem.res = 1024
                  /\ <<mem.base0, mem.exp0>> = <<3, 7>> => mem.res = 2187
                  /\ <<mem.base0, mem.exp0>> = <<5, 0>> => mem.res = 1
                  /\ <<mem.base0, mem.exp0>> = <<3, 13>> => mem.res = 1594323)
    /\ <>(pc = "done")

C10_Witness ==
    /\ unit = "fast_power.c" /\ pc = "done"
    /\ mem.base0 = 3 /\ mem.exp0 = 13 /\ mem.res = 1594323

\* The numbers printed by the output loop of a sieve, in the order printed.
Printed == [n \in 1 .. Len(SelectSeq(out, LAMBDA e : e.fmt = "%d ")) |->
               SelectSeq(out, LAMBDA e : e.fmt = "%d ")[n].args[1]]

\* C11: for every N >= 2 within the array bound the two sieves print, in strictly
\* increasing order, exactly the i in 2..N for which the trial-division is_prime(i)
\* returns 1; for N = 30 the output is 2 3 5 7 11 13 17 19 23 29; the count of
\* count_primes_range.c is the number of such i, 25 for n = 100; every run ends.
C11_SieveAgrees ==
    /\ [](pc = "done" /\ unit \in {"sieve_eratosthenes.c", "prime_sieve.c"} =>
            /\ \A a, b \in 1 .. Len(Printed) : a < b => Printed[a] < Printed[b]
            /\ {Printed[a] : a \in 1 .. Len(Printed)}
                  = {i \in 2 .. mem.N : is_prime(i) = 1}
            /\ mem.N = 30 => Printed = <<2, 3, 5, 7, 11, 13, 17, 19, 23, 29>>)
    /\ [](pc = "done" /\ unit = "count_primes_range.c" =>
            /\ mem.count = Cardinality({i \in 2 .. mem.N : is_prime(i) = 1})
            /\ mem.N = 100 => mem.count = 25)
    /\ <>(pc = "done")

C11_Witness ==
    /\ pc = "done" /\ unit = "prime_sieve.c" /\ mem.N = 30
    /\ Printed = <<2, 3, 5, 7, 11, 13, 17, 19, 23, 29>>
    /\ mem.is_prime[25] = 0 /\ mem.p = 6

\* The values printed by the `Odd: %d` line of test5_break_continue.c, in order.
OddLines == SelectSeq(out, LAMBDA e : e.fmt = "Odd: %d")

\* C12: every loop with a continue or a do-while body ends, in the expected state:
\* the while loop of test5_break_continue.c prints Odd exactly for 1, 3, 5, 7, 9 and
\* ends with j = 10; the do-while of all_features.c tests its condition only after
\* a run of the body and ends with n = -2 after exactly 4 runs; the while loop on
\* count ends with count = 5.
C12_LoopsEnd ==
    /\ [](unit = "test5_break_continue.c" =>
            /\ pc \in {"t5_decl_x", "done"} =>
                  /\ mem.j = 10
                  /\ OddLines = << Pr("Odd: %d", <<1>>), Pr("Odd: %d", <<3>>),
                                   Pr("Odd: %d", <<5>>), Pr("Odd: %d", <<7>>),
                                   Pr("Odd: %d", <<9>>) >>
            /\ pc = "t5_while_print" => CRem(mem.j, 2) = 1)
    /\ [](unit = "all_features.c" =>
            /\ pc = "af_do_cond" => mem.iters >= 1
            /\ pc = "af_decl_n" => mem.count = 5
            /\ pc \in {"af_for_init", "done"} =>
                  mem.n = -2 /\ mem.iters = 4 /\ mem.count = 5)
    /\ <>(pc = "done")

C12_Witness ==
    /\ unit = "test5_break_continue.c" /\ pc = "done" /\ mem.j = 10
    /\ Len(OddLines) = 5
====
